---- MODULE Spec2Model ----
(***************************************************************************)
(* Model of the batch-delivery pipeline of scripts/Data-reorganizate:      *)
(* send_batches.main, batcher.sender.send_payloads, batcher.state,         *)
(* batcher.utils and batcher.client.                                       *)
(*                                                                         *)
(* Python strings are modelled as sequences of characters, a character     *)
(* being a one-character string or one of the named control characters     *)
(* below, so that strip(), lower(), replace() and the `in` test on strings *)
(* are computed and not assumed.                                           *)
(***************************************************************************)
EXTENDS Integers, Sequences, FiniteSets, TLC

\* ------------------------------------------------------------------------
\* Bounds of the model
\* ------------------------------------------------------------------------
MaxRecords == 3      \* longest input record sequence
MaxBatchSize == 2    \* largest --batch-size
MaxRetries == 2      \* largest --max-retries
MaxRuns == 2         \* runs of main against the same ledger file

\* ------------------------------------------------------------------------
\* Characters and strings
\* ------------------------------------------------------------------------
CR == "CR"
LF == "LF"
NUL == "NUL"
TAB == "TAB"
\* Python's None where a string may stand: a value no string of the model equals
None == <<"None">>

\* str.isspace() for one character, over the characters the model uses
IsSpace(c) == c \in {" ", CR, LF, TAB}

UpperLetters ==
  <<"A", "B", "C", "D", "E", "F", "G", "H", "I", "J", "K", "L", "M",
    "N", "O", "P", "Q", "R", "S", "T", "U", "V", "W", "X", "Y", "Z">>

LowerLetters ==
  <<"a", "b", "c", "d", "e", "f", "g", "h", "i", "j", "k", "l", "m",
    "n", "o", "p", "q", "r", "s", "t", "u", "v", "w", "x", "y", "z">>

LowerTable ==
  [c \in {UpperLetters[i] : i \in 1..26} |->
     LowerLetters[CHOOSE i \in 1..26 : UpperLetters[i] = c]]

\* str.lower() for one character
LowerChar(c) == IF c \in DOMAIN LowerTable THEN LowerTable[c] ELSE c

\* str.lower()
Lower(s) == [i \in 1..Len(s) |-> LowerChar(s[i])]

RECURSIVE LStrip(_)
LStrip(s) == IF s # <<>> /\ IsSpace(Head(s)) THEN LStrip(Tail(s)) ELSE s

RECURSIVE RStrip(_)
RStrip(s) ==
  IF s # <<>> /\ IsSpace(s[Len(s)]) THEN RStrip(SubSeq(s, 1, Len(s) - 1)) ELSE s

\* str.strip()
Strip(s) == RStrip(LStrip(s))

\* `sub in s` for strings
Contains(s, sub) ==
  \E i \in 0..(Len(s) - Len(sub)) : SubSeq(s, i + 1, i + Len(sub)) = sub

\* `x or ""` for a string-or-None value
OrEmpty(x) == IF x = None THEN <<>> ELSE x

\* ------------------------------------------------------------------------
\* batcher/sender.py: the accept-status option and the acceptance decision
\* ------------------------------------------------------------------------
Digits == <<"0", "1", "2", "3", "4", "5", "6", "7", "8", "9">>

DigitVal(c) == (CHOOSE i \in 1..10 : Digits[i] = c) - 1

IsDigit(c) == \E i \in 1..10 : Digits[i] = c

\* whether int(tok) succeeds, for a stripped token of decimal digits with an
\* optional sign; int() raises ValueError on anything else the model uses
IsIntLiteral(tok) ==
  LET body == IF tok # <<>> /\ Head(tok) \in {"+", "-"} THEN Tail(tok) ELSE tok
  IN body # <<>> /\ \A i \in 1..Len(body) : IsDigit(body[i])

RECURSIVE DecimalValue(_)
DecimalValue(ds) ==
  IF ds = <<>> THEN 0
  ELSE 10 * DecimalValue(SubSeq(ds, 1, Len(ds) - 1)) + DigitVal(ds[Len(ds)])

\* int(tok) where IsIntLiteral(tok)
IntOf(tok) ==
  IF Head(tok) = "-" THEN 0 - DecimalValue(Tail(tok))
  ELSE IF Head(tok) = "+" THEN DecimalValue(Tail(tok))
  ELSE DecimalValue(tok)

\* str.split(sep) for a one-character separator
RECURSIVE Split(_, _)
Split(s, sep) ==
  IF \A i \in 1..Len(s) : s[i] # sep THEN <<s>>
  ELSE LET k == CHOOSE i \in 1..Len(s) :
                  s[i] = sep /\ \A j \in 1..(i - 1) : s[j] # sep
       IN <<SubSeq(s, 1, k - 1)>> \o Split(SubSeq(s, k + 1, Len(s)), sep)

DefaultAcceptStatus == 200

\* sender.py lines 11-14: the accept set parsed from --accept-status; one token
\* int() rejects makes the whole expression raise, and the set becomes {200}
ParseAcceptStatus(text) ==
  LET toks == Split(text, ",")
      kept == {i \in 1..Len(toks) : Strip(toks[i]) # <<>>}
  IN IF \A i \in kept : IsIntLiteral(Strip(toks[i]))
     THEN {IntOf(Strip(toks[i])) : i \in kept}
     ELSE {DefaultAcceptStatus}

\* the success substring lowercased but not trimmed
NormalizeSubstringNoStrip(arg) == Lower(OrEmpty(arg))

\* sender.py line 15: the success substring the loop uses
NormalizeSubstring(arg) == Lower(Strip(OrEmpty(arg)))

\* JSON values: json.loads gives a dict (here a sequence of <<key, value>> with
\* distinct keys, in document order), a list, or raises.
JInt(n) == [t |-> "int", v |-> n]
JStr(s) == [t |-> "str", v |-> s]
JDict(items) == [kind |-> "dict", items |-> items]
JList == [kind |-> "list", items |-> <<>>]
JError == [kind |-> "error", items |-> <<>>]
JNone == [t |-> "none", v |-> 0]
\* json.loads gives a bool for true/false; a bool is an int, True == 1
JBool(b) == [t |-> "bool", v |-> IF b THEN 1 ELSE 0]
IsInstanceInt(v) == v.t \in {"int", "bool"}

kStatus == <<"s", "t", "a", "t", "u", "s">>
kMsg == <<"m", "s", "g">>
sDone == <<"d", "o", "n", "e">>
sPending == <<"p", "e", "n", "d", "i", "n", "g">>

BodyOK == <<"O", "K">>
BodyAllDone == <<"A", "l", "l", " ", "D", "o", "n", "e">>
BodyStatusPending ==
  <<"{", "\"", "s", "t", "a", "t", "u", "s", "\"", ":", "\"", "p", "e", "n", "d", "i", "n", "g", "\"", "}">>
BodyStatus200 ==
  <<"{", "\"", "s", "t", "a", "t", "u", "s", "\"", ":", "2", "0", "0", "}">>
BodyStatus201 ==
  <<"{", "\"", "s", "t", "a", "t", "u", "s", "\"", ":", "2", "0", "1", "}">>
BodyStatusEscaped ==
  <<"{", "\"", "s", "t", "a", "t", "u", "s", "\"", ":", "\"", "d", "\\", "u", "0", "0", "6", "f", "n", "e", "\"", "}">>
BodyMsgEscaped ==
  <<"{", "\"", "m", "s", "g", "\"", ":", "\"", "D", "\\", "u", "0", "0", "6", "f", "N", "E", "\"", "}">>
BodyListEscaped ==
  <<"[", "\"", "d", "\\", "u", "0", "0", "6", "f", "n", "e", "\"", "]">>
BodyStatusTrue ==
  <<"{", "\"", "s", "t", "a", "t", "u", "s", "\"", ":", "t", "r", "u", "e", "}">>
BodyEmpty == <<>>
\* str(e) of a transport failure
BodyTimedOut == <<"t", "i", "m", "e", "d", " ", "o", "u", "t">>

\* json.loads on the response bodies of the model; the JSON escape u006f is "o"
JsonLoads(text) ==
  CASE text = BodyStatusPending -> JDict(<< <<kStatus, JStr(sPending)>> >>)
    [] text = BodyStatus200 -> JDict(<< <<kStatus, JInt(200)>> >>)
    [] text = BodyStatus201 -> JDict(<< <<kStatus, JInt(201)>> >>)
    [] text = BodyStatusEscaped -> JDict(<< <<kStatus, JStr(sDone)>> >>)
    [] text = BodyMsgEscaped -> JDict(<< <<kMsg, JStr(<<"D", "o", "N", "E">>)>> >>)
    [] text = BodyListEscaped -> JList
    [] text = BodyStatusTrue -> JDict(<< <<kStatus, JBool(TRUE)>> >>)
    [] OTHER -> JError

\* dict.get(key) on a sequence of <<key, value>> with distinct keys
DictGet(items, key) ==
  IF \E i \in 1..Len(items) : items[i][1] = key
  THEN items[CHOOSE i \in 1..Len(items) : items[i][1] = key][2]
  ELSE JNone

\* sender.py lines 42-45: some string value of the dict contains the substring
AnyStringValue(items, success_substring) ==
  \E i \in 1..Len(items) :
    /\ items[i][2].t = "str"
    /\ Contains(Lower(items[i][2].v), success_substring)

\* the JSON inspection without the scan of the other string values
JsonAcceptsStatusOnly(resp_text, accept_status, success_substring) ==
  LET parsed == JsonLoads(resp_text)
      v == DictGet(parsed.items, kStatus)
  IN IF parsed.kind # "dict" THEN FALSE
     ELSE IF IsInstanceInt(v) /\ v.v \in accept_status THEN TRUE
     ELSE v.t = "str" /\ Contains(Lower(v.v), success_substring)

\* sender.py lines 33-47: `accepted` after the JSON inspection
JsonAccepts(resp_text, accept_status, success_substring) ==
  LET parsed == JsonLoads(resp_text)
      v == DictGet(parsed.items, kStatus)
  IN IF parsed.kind # "dict" THEN FALSE
     ELSE IF IsInstanceInt(v) /\ v.v \in accept_status THEN TRUE
     ELSE IF v.t = "str" /\ Contains(Lower(v.v), success_substring)
       THEN TRUE
     ELSE AnyStringValue(parsed.items, success_substring)

\* sender.py line 51: {k.lower(): v for k, v in resp_headers.items()}; a later
\* item replaces an earlier one with the same lowered key
LowerKeys(headers) ==
  LET keys == {Lower(headers[i][1]) : i \in 1..Len(headers)}
      last(k) == CHOOSE i \in 1..Len(headers) :
                   /\ Lower(headers[i][1]) = k
                   /\ \A j \in (i + 1)..Len(headers) : Lower(headers[j][1]) # k
  IN [k \in keys |-> headers[last(k)][2]]

HeaderKeys ==
  << <<"s", "t", "a", "t", "u", "s">>,
     <<"x", "-", "s", "t", "a", "t", "u", "s">>,
     <<"r", "e", "s", "u", "l", "t">>,
     <<"x", "-", "r", "e", "s", "u", "l", "t">>,
     <<"m", "e", "s", "s", "a", "g", "e">> >>

sOk == <<"o", "k">>
sSuccess == <<"s", "u", "c", "c", "e", "s", "s">>

\* sender.py lines 52-60: the loop over the five header names from position i
RECURSIVE HeaderLoop(_, _, _)
HeaderLoop(hdrs, success_substring, i) ==
  IF i > Len(HeaderKeys) THEN FALSE
  ELSE IF HeaderKeys[i] \in DOMAIN hdrs
    THEN LET val == Lower(Strip(OrEmpty(hdrs[HeaderKeys[i]])))
         IN IF val \in {sOk, sSuccess} THEN TRUE
            ELSE IF success_substring # <<>> /\ Contains(val, success_substring)
              THEN TRUE
            ELSE HeaderLoop(hdrs, success_substring, i + 1)
  ELSE HeaderLoop(hdrs, success_substring, i + 1)

HeadersAccept(resp_headers, success_substring) ==
  HeaderLoop(LowerKeys(resp_headers), success_substring, 1)

\* sender.py lines 24-62: `accepted` for one response
Accepted(status, resp_text, resp_headers, accept_status, success_substring) ==
  LET lower == Lower(OrEmpty(resp_text))
  IN IF status \in accept_status
     THEN IF success_substring = <<>> THEN TRUE
          ELSE IF Contains(lower, success_substring) THEN TRUE
          ELSE \/ JsonAccepts(resp_text, accept_status, success_substring)
               \/ HeadersAccept(resp_headers, success_substring)
     ELSE FALSE

\* ------------------------------------------------------------------------
\* batcher/utils.py, batcher/state.py, send_batches.py: the pure steps
\* ------------------------------------------------------------------------
sApproved == <<"a", "p", "p", "r", "o", "v", "e", "d">>
sPublic == <<"p", "u", "b", "l", "i", "c">>

\* PassesGate comparing the approval status untrimmed
PassesGateNoStrip(rec) ==
  /\ rec.approval_status # None
  /\ Lower(rec.approval_status) = sApproved
  /\ rec.audience # None
  /\ Lower(Strip(rec.audience)) = sPublic

\* send_batches.py lines 19-35: the approval/audience gate for one record
PassesGate(rec) ==
  /\ rec.approval_status # None
  /\ Lower(Strip(rec.approval_status)) = sApproved
  /\ rec.audience # None
  /\ Lower(Strip(rec.audience)) = sPublic

\* the positions of xs whose element satisfies Test, in increasing order
RECURSIVE KeepFrom(_, _, _)
KeepFrom(xs, Test(_), i) ==
  IF i > Len(xs) THEN <<>>
  ELSE (IF Test(xs[i]) THEN <<i>> ELSE <<>>) \o KeepFrom(xs, Test, i + 1)

\* send_batches.py lines 16-38
basic_prefilter(recs) == SelectSeq(recs, PassesGate)

\* the lines `for line in f` yields, without their line ends: a text file is
\* cut after every LF, CR LF and CR
RECURSIVE FileLines(_)
FileLines(text) ==
  IF \A i \in 1..Len(text) : text[i] \notin {CR, LF} THEN
    (IF text = <<>> THEN <<>> ELSE <<text>>)
  ELSE LET k == CHOOSE i \in 1..Len(text) :
                  text[i] \in {CR, LF} /\ \A j \in 1..(i - 1) : text[j] \notin {CR, LF}
           skip == IF text[k] = CR /\ k < Len(text) /\ text[k + 1] = LF
                   THEN k + 1 ELSE k
       IN <<SubSeq(text, 1, k - 1)>> \o FileLines(SubSeq(text, skip + 1, Len(text)))

\* state.py lines 6-18 (the file is read without an error)
load_sent_uids(file) ==
  LET lines == FileLines(file)
  IN {Strip(lines[i]) : i \in {j \in 1..Len(lines) : Strip(lines[j]) # <<>>}}

\* append_sent_uids with the file opened for writing instead of appending
RECURSIVE append_truncating(_, _)
append_truncating(file, uids) ==
  IF uids = <<>> THEN <<>>
  ELSE append_truncating(file, SubSeq(uids, 1, Len(uids) - 1)) \o uids[Len(uids)] \o <<LF>>

\* append_sent_uids writing the new lines before the old content
RECURSIVE append_at_front(_, _)
append_at_front(file, uids) ==
  IF uids = <<>> THEN file
  ELSE Head(uids) \o <<LF>> \o append_at_front(file, Tail(uids))

\* state.py lines 21-29 (the file is written without an error)
RECURSIVE append_sent_uids(_, _)
append_sent_uids(file, uids) ==
  IF uids = <<>> THEN file
  ELSE append_sent_uids(file \o Head(uids) \o <<LF>>, Tail(uids))

\* chunked without a last chunk that is shorter than size
RECURSIVE chunked_full_only(_, _)
chunked_full_only(xs, size) ==
  IF Len(xs) < size THEN <<>>
  ELSE <<SubSeq(xs, 1, size)>> \o chunked_full_only(SubSeq(xs, size + 1, Len(xs)), size)

\* utils.py lines 13-15: range(0, len, size) for size > 0
RECURSIVE chunked(_, _)
chunked(xs, size) ==
  IF xs = <<>> THEN <<>>
  ELSE IF Len(xs) <= size THEN <<xs>>
  ELSE <<SubSeq(xs, 1, size)>> \o chunked(SubSeq(xs, size + 1, Len(xs)), size)

\* Limited keeping one batch more than --limit-batches allows
LimitedOneMore(batches, limit) ==
  IF limit > 0 /\ limit + 1 < Len(batches) THEN SubSeq(batches, 1, limit + 1)
  ELSE batches

\* send_batches.py lines 101-102: payloads[:limit] when limit > 0
Limited(batches, limit) ==
  IF limit > 0 /\ limit < Len(batches) THEN SubSeq(batches, 1, limit)
  ELSE batches

\* utils.py lines 18-21
RECURSIVE ReplaceCRDropNUL(_)
ReplaceCRDropNUL(s) ==
  IF s = <<>> THEN <<>>
  ELSE (IF Head(s) = CR THEN <<" ">>
        ELSE IF Head(s) = NUL THEN <<>>
        ELSE <<Head(s)>>) \o ReplaceCRDropNUL(Tail(s))

_sanitize(s) == IF s = None THEN <<>> ELSE ReplaceCRDropNUL(s)

\* utils.py lines 27-33: one payload item
PayloadItem(r) ==
  [uid |-> _sanitize(Strip(OrEmpty(r.uid))),
   name |-> _sanitize(Strip(OrEmpty(r.name))),
   description |-> _sanitize(Strip(OrEmpty(r.description))),
   url |-> _sanitize(Strip(OrEmpty(r.url))),
   tags |-> _sanitize(Strip(OrEmpty(r.tags)))]

\* utils.py lines 24-34
prepare_payload(recs) == [i \in 1..Len(recs) |-> PayloadItem(recs[i])]

\* NotYetSent with the uid compared as it is in the record, untrimmed
NotYetSentNoStrip(rec, sent_uids) ==
  LET uid == OrEmpty(rec.uid)
  IN ~(uid # <<>> /\ uid \in sent_uids)

\* NotYetSent that also drops the records without a uid
NotYetSentDropBlank(rec, sent_uids) ==
  LET uid == Strip(OrEmpty(rec.uid))
  IN uid # <<>> /\ uid \notin sent_uids

\* send_batches.py lines 85-95: the records kept after the ledger filter
NotYetSent(rec, sent_uids) ==
  LET uid == Strip(OrEmpty(rec.uid))
  IN ~(uid # <<>> /\ uid \in sent_uids)

LedgerFilter(filtered, sent_uids) ==
  IF sent_uids # {}
  THEN LET Keep(r) == NotYetSent(r, sent_uids) IN SelectSeq(filtered, Keep)
  ELSE filtered

\* BatchUids without the test for an empty uid
RECURSIVE BatchUidsKeepEmpty(_)
BatchUidsKeepEmpty(body) ==
  IF body = <<>> THEN <<>>
  ELSE <<Strip(OrEmpty(Head(body).uid))>> \o BatchUidsKeepEmpty(Tail(body))

\* sender.py line 67: the uids of a batch that go to the ledger
RECURSIVE BatchUids(_)
BatchUids(body) ==
  IF body = <<>> THEN <<>>
  ELSE (IF Strip(OrEmpty(Head(body).uid)) # <<>>
        THEN <<Strip(OrEmpty(Head(body).uid))>> ELSE <<>>) \o BatchUids(Tail(body))

\* sender.py line 75
RECURSIVE Pow2(_)
Pow2(n) == IF n = 0 THEN 1 ELSE 2 * Pow2(n - 1)

\* Backoff growing by wait_seconds each attempt instead of doubling
BackoffLinear(wait_seconds, attempt) == wait_seconds * attempt

Backoff(wait_seconds, attempt) == wait_seconds * Pow2(attempt - 1)

\* ------------------------------------------------------------------------
\* The inputs of the model
\* ------------------------------------------------------------------------
Rec(uid, approval, audience) ==
  [uid |-> uid, name |-> <<"n">>, description |-> None, url |-> <<"u", CR>>,
   tags |-> <<>>, approval_status |-> approval, audience |-> audience]

RecA == Rec(<<"a">>, sApproved, sPublic)
RecG == Rec(<<"g">>, sApproved, sPublic)

\* rows of the input CSV: plain uids, a padded uid, a row without uid, a uid
\* with a carriage return inside (a quoted CSV field), a row the gate drops
RecordPool ==
  { RecA, RecG,
    Rec(<<" ", "b">>, <<"A", "p", "p", "r", "o", "v", "e", "d", " ">>, <<"P", "U", "B", "L", "I", "C">>),
    Rec(None, sApproved, sPublic),
    Rec(<<"c", CR, "d">>, sApproved, sPublic),
    Rec(<<"e">>, sPending, sPublic) }

RECURSIVE SeqsUpTo(_, _)
SeqsUpTo(S, n) ==
  IF n = 0 THEN {<<>>}
  ELSE LET shorter == SeqsUpTo(S, n - 1)
       IN shorter \cup {Append(q, x) : q \in {p \in shorter : Len(p) = n - 1}, x \in S}

Inputs == SeqsUpTo(RecordPool, MaxRecords)

\* a value of --webhook
DefaultWebhook == "https://hook.example/w"

\* --wait-seconds values of the model (seconds)
WaitChoices == {1, 3}

\* send_batches.py line 55: the default of --wait-seconds
DefaultWaitSeconds == 1

sTerminado == <<"t", "e", "r", "m", "i", "n", "a", "d", "o">>

\* what the webhook answers in the pipeline runs: (status, body, headers) as
\* post_json returns them; status 0 is a transport failure
PipelineResponses ==
  { [status |-> 200,
     body |-> <<"P", "r", "o", "c", "e", "s", "o", " ", "T", "e", "r", "m", "i", "n", "a", "d", "o">>,
     headers |-> <<>>],
    [status |-> 200, body |-> BodyStatusPending, headers |-> <<>>],
    [status |-> 0, body |-> BodyTimedOut, headers |-> <<>>] }

\* ------------------------------------------------------------------------
\* State
\* ------------------------------------------------------------------------
VARIABLES
  records,    \* the rows load_csv returns for the input file
  args,       \* the parsed command line
  ledger,     \* the content of the state file, a sequence of characters
  pc,         \* where main is: idle, post, accepted, done, failed, crashed
  payloads,   \* send_payloads: the batches
  idx,        \* send_payloads: the 1-based number of the current batch
  attempt,    \* send_payloads: attempts made for the current batch
  accept_status,      \* send_payloads: the parsed accept set
  success_substring,  \* send_payloads: the normalised success substring
  run,        \* how many runs of main have started
  posts,      \* history: the POSTs of this run, [idx, attempt, accepted]
  appended,   \* history: the uids this run wrote to the ledger, in order
  slept,      \* history: the sleeps of this run, [idx, attempt, secs]
  ledger0,    \* history: the ledger content when this run started
  src,        \* history: for each batch, the positions in records of its items
  prev,       \* history: the previous run, when there is one
  probe,      \* the input and the result of one function looked at on its own
  loaded      \* history: what load_sent_uids gave this run, [fault, uids]

vars ==
  <<records, args, ledger, pc, payloads, idx, attempt, accept_status,
    success_substring, run, posts, appended, slept, ledger0, src, prev, probe,
    loaded>>

NoPrev ==
  [valid |-> FALSE, pc |-> "idle", payloads |-> <<>>, src |-> <<>>,
   idx |-> 0, accepted |-> {}, ledger0 |-> <<>>]

NoLoad == [fault |-> FALSE, uids |-> {}]

NoProbe ==
  [phase |-> "none", status |-> 0, resp_text |-> <<>>, resp_headers |-> <<>>,
   accepted |-> FALSE]

Init ==
  /\ records \in Inputs
  /\ args \in [batch_size : 1..MaxBatchSize,
               max_retries : 1..MaxRetries,
               wait_seconds : {DefaultWaitSeconds},
               accept_status : {<<"2", "0", "0">>},
               success_substring : {sTerminado},
               limit_batches : {0},
               webhook : {DefaultWebhook}]
  /\ ledger = <<>>
  /\ pc = "idle"
  /\ payloads = <<>>
  /\ idx = 0
  /\ attempt = 0
  /\ accept_status = {}
  /\ success_substring = <<>>
  /\ run = 0
  /\ posts = <<>>
  /\ appended = <<>>
  /\ slept = <<>>
  /\ ledger0 = <<>>
  /\ src = <<>>
  /\ prev = NoPrev
  /\ probe = NoProbe
  /\ loaded = NoLoad

\* runs that look at the retry loop: few inputs, more attempts, several waits
MaxRetriesDeep == 4

RetryInputs == {<<RecA>>, <<RecA, RecG>>, <<RecA, RecG, RecA>>}

InitRetry ==
  /\ records \in RetryInputs
  /\ args \in [batch_size : 1..MaxBatchSize,
               max_retries : 1..MaxRetriesDeep,
               wait_seconds : WaitChoices,
               accept_status : {<<"2", "0", "0">>},
               success_substring : {sTerminado},
               limit_batches : {0},
               webhook : {DefaultWebhook}]
  /\ ledger = <<>>
  /\ pc = "idle"
  /\ payloads = <<>>
  /\ idx = 0
  /\ attempt = 0
  /\ accept_status = {}
  /\ success_substring = <<>>
  /\ run = 0
  /\ posts = <<>>
  /\ appended = <<>>
  /\ slept = <<>>
  /\ ledger0 = <<>>
  /\ src = <<>>
  /\ prev = NoPrev
  /\ probe = NoProbe
  /\ loaded = NoLoad

\* the batches of this run that had an accepted POST
AcceptedBatches == {posts[i].idx : i \in {j \in 1..Len(posts) : posts[j].accepted}}

\* ------------------------------------------------------------------------
\* send_batches.py lines 66-107 and sender.py lines 9-19: a run of main with
\* --execute up to the first POST (no --type)
\* ------------------------------------------------------------------------
RunStart ==
  /\ pc \in {"idle", "done", "failed", "crashed", "dry", "noinput"}
  /\ run < MaxRuns
  /\ LET filtered == basic_prefilter(records)
         sent_uids == load_sent_uids(ledger)
         remaining == LedgerFilter(filtered, sent_uids)
         batches == Limited([i \in 1..Len(chunked(remaining, args.batch_size)) |->
                                prepare_payload(chunked(remaining, args.batch_size)[i])],
                             args.limit_batches)
         Kept(r) == PassesGate(r) /\ (sent_uids = {} \/ NotYetSent(r, sent_uids))
     IN /\ payloads' = batches
        /\ src' = Limited(chunked(KeepFrom(records, Kept, 1), args.batch_size),
                        args.limit_batches)
        /\ pc' = IF batches = <<>> THEN "done" ELSE "post"
        /\ idx' = IF batches = <<>> THEN 0 ELSE 1
  /\ attempt' = 0
  /\ accept_status' = ParseAcceptStatus(args.accept_status)
  /\ success_substring' = NormalizeSubstring(args.success_substring)
  /\ run' = run + 1
  /\ prev' = IF run = 0 THEN NoPrev
             ELSE [valid |-> TRUE, pc |-> pc, payloads |-> payloads, src |-> src,
                   idx |-> idx, accepted |-> AcceptedBatches, ledger0 |-> ledger0]
  /\ posts' = <<>>
  /\ appended' = <<>>
  /\ slept' = <<>>
  /\ ledger0' = ledger
  /\ UNCHANGED <<probe, records, args, ledger>>
  /\ loaded' = [fault |-> FALSE, uids |-> load_sent_uids(ledger)]

\* Post with the abort replaced by a step to the next batch
PostContinueOnFail ==
  /\ pc = "post"
  /\ attempt < args.max_retries
  /\ \E resp \in PipelineResponses :
       LET accepted == Accepted(resp.status, resp.body, resp.headers,
                                accept_status, success_substring)
           n == attempt + 1
       IN /\ posts' = Append(posts, [idx |-> idx, attempt |-> n, accepted |-> accepted])
          /\ IF accepted
             THEN pc' = "accepted" /\ slept' = slept /\ idx' = idx /\ attempt' = n
             ELSE IF n < args.max_retries
             THEN /\ pc' = "post" /\ idx' = idx /\ attempt' = n
                  /\ slept' = Append(slept, [idx |-> idx, attempt |-> n,
                                             secs |-> Backoff(args.wait_seconds, n)])
             ELSE /\ slept' = slept
                  /\ IF idx < Len(payloads)
                     THEN pc' = "post" /\ idx' = idx + 1 /\ attempt' = 0
                     ELSE pc' = "done" /\ idx' = idx /\ attempt' = n
  /\ UNCHANGED <<probe, loaded, records, args, ledger, payloads, accept_status,
                 success_substring, run, appended, ledger0, src, prev>>

\* Post with one attempt too many (`<=` for `<` in the loop tests)
PostOneMoreAttempt ==
  /\ pc = "post"
  /\ attempt <= args.max_retries
  /\ \E resp \in PipelineResponses :
       LET accepted == Accepted(resp.status, resp.body, resp.headers,
                                accept_status, success_substring)
           n == attempt + 1
       IN /\ attempt' = n
          /\ posts' = Append(posts, [idx |-> idx, attempt |-> n, accepted |-> accepted])
          /\ IF accepted
             THEN pc' = "accepted" /\ slept' = slept
             ELSE IF n <= args.max_retries
             THEN /\ pc' = "post"
                  /\ slept' = Append(slept, [idx |-> idx, attempt |-> n,
                                             secs |-> Backoff(args.wait_seconds, n)])
             ELSE pc' = "failed" /\ slept' = slept
  /\ UNCHANGED <<probe, loaded, records, args, ledger, payloads, idx, accept_status,
                 success_substring, run, appended, ledger0, src, prev>>

\* Post with the abort replaced by a normal return
PostReturnOnFail ==
  /\ pc = "post"
  /\ attempt < args.max_retries
  /\ \E resp \in PipelineResponses :
       LET accepted == Accepted(resp.status, resp.body, resp.headers,
                                accept_status, success_substring)
           n == attempt + 1
       IN /\ attempt' = n
          /\ posts' = Append(posts, [idx |-> idx, attempt |-> n, accepted |-> accepted])
          /\ IF accepted
             THEN pc' = "accepted" /\ slept' = slept
             ELSE IF n < args.max_retries
             THEN /\ pc' = "post"
                  /\ slept' = Append(slept, [idx |-> idx, attempt |-> n,
                                             secs |-> Backoff(args.wait_seconds, n)])
             ELSE pc' = "done" /\ slept' = slept
  /\ UNCHANGED <<probe, loaded, records, args, ledger, payloads, idx, accept_status,
                 success_substring, run, appended, ledger0, src, prev>>

\* Post with a retry that sends the batch without its first item
PostShrinkOnRetry ==
  /\ pc = "post"
  /\ attempt < args.max_retries
  /\ \E resp \in PipelineResponses :
       LET accepted == Accepted(resp.status, resp.body, resp.headers,
                                accept_status, success_substring)
           n == attempt + 1
       IN /\ attempt' = n
          /\ posts' = Append(posts, [idx |-> idx, attempt |-> n, accepted |-> accepted])
          /\ IF accepted
             THEN pc' = "accepted" /\ slept' = slept /\ payloads' = payloads
             ELSE IF n < args.max_retries
             THEN /\ pc' = "post"
                  /\ payloads' = [payloads EXCEPT ![idx] = Tail(@)]
                  /\ slept' = Append(slept, [idx |-> idx, attempt |-> n,
                                             secs |-> Backoff(args.wait_seconds, n)])
             ELSE pc' = "failed" /\ slept' = slept /\ payloads' = payloads
  /\ UNCHANGED <<probe, loaded, records, args, ledger, idx, accept_status,
                 success_substring, run, appended, ledger0, src, prev>>

\* sender.py lines 21-63 and 72-79: one attempt: the POST, the acceptance
\* decision and, when it is not accepted, the backoff sleep or the abort
Post ==
  /\ pc = "post"
  /\ attempt < args.max_retries
  /\ \E resp \in PipelineResponses :
       LET accepted == Accepted(resp.status, resp.body, resp.headers,
                                accept_status, success_substring)
           n == attempt + 1
       IN /\ attempt' = n
          /\ posts' = Append(posts, [idx |-> idx, attempt |-> n, accepted |-> accepted])
          /\ IF accepted
             THEN pc' = "accepted" /\ slept' = slept
             ELSE IF n < args.max_retries
             THEN /\ pc' = "post"
                  /\ slept' = Append(slept, [idx |-> idx, attempt |-> n,
                                             secs |-> Backoff(args.wait_seconds, n)])
             ELSE pc' = "failed" /\ slept' = slept
  /\ UNCHANGED <<probe, loaded, records, args, ledger, payloads, idx, accept_status,
                 success_substring, run, appended, ledger0, src, prev>>

\* sender.py lines 64-71 and 17-20: after an accepted POST: the ledger append,
\* the settle sleep and the step to the next batch or the normal return
Commit ==
  /\ pc = "accepted"
  /\ LET batch_uids == BatchUids(payloads[idx])
     IN /\ ledger' = IF batch_uids # <<>> THEN append_sent_uids(ledger, batch_uids)
                     ELSE ledger
        /\ appended' = appended \o batch_uids
  /\ slept' = Append(slept, [idx |-> idx, attempt |-> attempt, secs |-> args.wait_seconds])
  /\ IF idx < Len(payloads)
     THEN pc' = "post" /\ idx' = idx + 1 /\ attempt' = 0
     ELSE pc' = "done" /\ idx' = idx /\ attempt' = attempt
  /\ UNCHANGED <<probe, loaded, records, args, payloads, accept_status, success_substring,
                 run, posts, ledger0, src, prev>>

\* the process is killed (or the machine stops) while send_payloads runs
Crash ==
  /\ pc \in {"post", "accepted"}
  /\ pc' = "crashed"
  /\ UNCHANGED <<probe, loaded, records, args, ledger, payloads, idx, attempt, accept_status,
                 success_substring, run, posts, appended, slept, ledger0, src, prev>>

Next == RunStart \/ Post \/ Commit \/ Crash

Spec == Init /\ [][Next]_vars

SpecRetry == InitRetry /\ [][Next]_vars

\* send_payloads is sequential code: post_json returns (the request has a
\* timeout) and a sleep ends, so an enabled step of the loop is taken unless
\* the process is killed
FairRetrySpec == SpecRetry /\ WF_vars(Post) /\ WF_vars(Commit)

\* ------------------------------------------------------------------------
\* Runs with ledger files that cannot be read or written, and dry runs
\* ------------------------------------------------------------------------
RecNoUid == Rec(None, sApproved, sPublic)

FaultInputs ==
  {<<RecA>>, <<RecA, RecG>>, <<RecG, RecNoUid, RecA>>, <<RecNoUid>>}

InitFault ==
  /\ records \in FaultInputs
  /\ args \in [batch_size : 1..MaxBatchSize,
               max_retries : 1..MaxRetries,
               wait_seconds : {DefaultWaitSeconds},
               accept_status : {<<"2", "0", "0">>},
               success_substring : {sTerminado},
               limit_batches : {0},
               webhook : {DefaultWebhook}]
  /\ ledger = <<>>
  /\ pc = "idle"
  /\ payloads = <<>>
  /\ idx = 0
  /\ attempt = 0
  /\ accept_status = {}
  /\ success_substring = <<>>
  /\ run = 0
  /\ posts = <<>>
  /\ appended = <<>>
  /\ slept = <<>>
  /\ ledger0 = <<>>
  /\ src = <<>>
  /\ prev = NoPrev
  /\ probe = NoProbe
  /\ loaded = NoLoad

\* state.py lines 8-17: the set load_sent_uids returns when the read raises
\* after k lines were taken in (k = 0: the file is missing or cannot be opened)
load_sent_uids_upto(file, k) ==
  LET lines == FileLines(file)
  IN {Strip(lines[i]) : i \in {j \in 1..k : Strip(lines[j]) # <<>>}}

\* RunStart with a ledger file that is missing, cannot be opened, or fails
\* while it is read
RunStartReadFault ==
  /\ pc \in {"idle", "done", "failed", "crashed", "dry", "noinput"}
  /\ run < MaxRuns
  /\ \E k \in 0..(IF FileLines(ledger) = <<>> THEN 0 ELSE Len(FileLines(ledger)) - 1) :
       LET filtered == basic_prefilter(records)
           sent_uids == load_sent_uids_upto(ledger, k)
           remaining == LedgerFilter(filtered, sent_uids)
           batches == Limited([i \in 1..Len(chunked(remaining, args.batch_size)) |->
                                  prepare_payload(chunked(remaining, args.batch_size)[i])],
                               args.limit_batches)
           Kept(r) == PassesGate(r) /\ (sent_uids = {} \/ NotYetSent(r, sent_uids))
       IN /\ payloads' = batches
          /\ src' = Limited(chunked(KeepFrom(records, Kept, 1), args.batch_size),
                        args.limit_batches)
          /\ pc' = IF batches = <<>> THEN "done" ELSE "post"
          /\ idx' = IF batches = <<>> THEN 0 ELSE 1
          /\ loaded' = [fault |-> TRUE, uids |-> sent_uids]
  /\ attempt' = 0
  /\ accept_status' = ParseAcceptStatus(args.accept_status)
  /\ success_substring' = NormalizeSubstring(args.success_substring)
  /\ run' = run + 1
  /\ prev' = IF run = 0 THEN NoPrev
             ELSE [valid |-> TRUE, pc |-> pc, payloads |-> payloads, src |-> src,
                   idx |-> idx, accepted |-> AcceptedBatches, ledger0 |-> ledger0]
  /\ posts' = <<>>
  /\ appended' = <<>>
  /\ slept' = <<>>
  /\ ledger0' = ledger
  /\ UNCHANGED <<probe, records, args, ledger>>

\* a run without --execute that POSTs its first batch all the same
DryRunPosting ==
  /\ pc \in {"idle", "done", "failed", "crashed", "dry", "noinput"}
  /\ run < MaxRuns
  /\ LET filtered == basic_prefilter(records)
         sent_uids == load_sent_uids(ledger)
         remaining == LedgerFilter(filtered, sent_uids)
         batches == Limited([i \in 1..Len(chunked(remaining, args.batch_size)) |->
                                prepare_payload(chunked(remaining, args.batch_size)[i])],
                             args.limit_batches)
         Kept(r) == PassesGate(r) /\ (sent_uids = {} \/ NotYetSent(r, sent_uids))
     IN /\ payloads' = batches
        /\ src' = Limited(chunked(KeepFrom(records, Kept, 1), args.batch_size),
                        args.limit_batches)
  /\ pc' = "dry"
  /\ idx' = 0
  /\ attempt' = 0
  /\ run' = run + 1
  /\ prev' = IF run = 0 THEN NoPrev
             ELSE [valid |-> TRUE, pc |-> pc, payloads |-> payloads, src |-> src,
                   idx |-> idx, accepted |-> AcceptedBatches, ledger0 |-> ledger0]
  /\ posts' = IF payloads' = <<>> THEN <<>>
               ELSE <<[idx |-> 1, attempt |-> 1, accepted |-> FALSE]>>
  /\ appended' = <<>>
  /\ slept' = <<>>
  /\ ledger0' = ledger
  /\ loaded' = [fault |-> FALSE, uids |-> load_sent_uids(ledger)]
  /\ UNCHANGED <<probe, records, args, ledger, accept_status, success_substring>>

\* send_batches.py lines 66-110: a run of main without --execute
DryRun ==
  /\ pc \in {"idle", "done", "failed", "crashed", "dry", "noinput"}
  /\ run < MaxRuns
  /\ LET filtered == basic_prefilter(records)
         sent_uids == load_sent_uids(ledger)
         remaining == LedgerFilter(filtered, sent_uids)
         batches == Limited([i \in 1..Len(chunked(remaining, args.batch_size)) |->
                                prepare_payload(chunked(remaining, args.batch_size)[i])],
                             args.limit_batches)
         Kept(r) == PassesGate(r) /\ (sent_uids = {} \/ NotYetSent(r, sent_uids))
     IN /\ payloads' = batches
        /\ src' = Limited(chunked(KeepFrom(records, Kept, 1), args.batch_size),
                        args.limit_batches)
  /\ pc' = "dry"
  /\ idx' = 0
  /\ attempt' = 0
  /\ run' = run + 1
  /\ prev' = IF run = 0 THEN NoPrev
             ELSE [valid |-> TRUE, pc |-> pc, payloads |-> payloads, src |-> src,
                   idx |-> idx, accepted |-> AcceptedBatches, ledger0 |-> ledger0]
  /\ posts' = <<>>
  /\ appended' = <<>>
  /\ slept' = <<>>
  /\ ledger0' = ledger
  /\ loaded' = [fault |-> FALSE, uids |-> load_sent_uids(ledger)]
  /\ UNCHANGED <<probe, records, args, ledger, accept_status, success_substring>>

\* CommitAppendFails with the exception of the append let out of
\* append_sent_uids: it ends send_payloads
CommitAppendRaises ==
  /\ pc = "accepted"
  /\ BatchUids(payloads[idx]) # <<>>
  /\ \E k \in 0..(Len(BatchUids(payloads[idx])) - 1) :
       LET written == SubSeq(BatchUids(payloads[idx]), 1, k)
       IN /\ ledger' = append_sent_uids(ledger, written)
          /\ appended' = appended \o written
  /\ pc' = "failed"
  /\ UNCHANGED <<probe, loaded, records, args, payloads, idx, attempt, accept_status,
                 success_substring, run, posts, slept, ledger0, src, prev>>

\* Commit when append_sent_uids fails (state.py lines 22-29): the directory
\* cannot be made or the file not opened (nothing is written) or a write
\* fails after k lines; the exception is swallowed and send_payloads goes on
CommitAppendFails ==
  /\ pc = "accepted"
  /\ BatchUids(payloads[idx]) # <<>>
  /\ \E k \in 0..(Len(BatchUids(payloads[idx])) - 1) :
       LET written == SubSeq(BatchUids(payloads[idx]), 1, k)
       IN /\ ledger' = append_sent_uids(ledger, written)
          /\ appended' = appended \o written
  /\ slept' = Append(slept, [idx |-> idx, attempt |-> attempt, secs |-> args.wait_seconds])
  /\ IF idx < Len(payloads)
     THEN pc' = "post" /\ idx' = idx + 1 /\ attempt' = 0
     ELSE pc' = "done" /\ idx' = idx /\ attempt' = attempt
  /\ UNCHANGED <<probe, loaded, records, args, payloads, accept_status,
                 success_substring, run, posts, ledger0, src, prev>>

NextFault ==
  \/ RunStart \/ Post \/ Commit \/ Crash
  \/ RunStartReadFault \/ DryRun \/ CommitAppendFails

SpecFault == InitFault /\ [][NextFault]_vars

\* ------------------------------------------------------------------------
\* Runs of main with every way it ends: --limit-batches, with and without
\* --execute, with and without the input file
\* ------------------------------------------------------------------------
MaxLimit == 2

RecBlankUid == Rec(<<" ", " ">>, sApproved, sPublic)
RecEmptyUid == Rec(<<>>, sApproved, sPublic)

MainInputs ==
  { <<RecA, RecG, RecNoUid>>, <<RecNoUid, RecBlankUid>>,
    <<RecBlankUid, RecA, RecEmptyUid>>, <<RecA>> }

InitMain ==
  /\ records \in MainInputs
  /\ args \in [batch_size : 1..MaxBatchSize,
               max_retries : 1..MaxRetries,
               wait_seconds : {DefaultWaitSeconds},
               accept_status : {<<"2", "0", "0">>},
               success_substring : {sTerminado},
               limit_batches : 0..MaxLimit,
               webhook : {DefaultWebhook}]
  /\ ledger = <<>>
  /\ pc = "idle"
  /\ payloads = <<>>
  /\ idx = 0
  /\ attempt = 0
  /\ accept_status = {}
  /\ success_substring = <<>>
  /\ run = 0
  /\ posts = <<>>
  /\ appended = <<>>
  /\ slept = <<>>
  /\ ledger0 = <<>>
  /\ src = <<>>
  /\ prev = NoPrev
  /\ probe = NoProbe
  /\ loaded = NoLoad

\* send_batches.py lines 62-65: a run of main when the input file does not
\* exist: sys.exit(2) before load_csv, load_sent_uids and send_payloads
InputNotFound ==
  /\ pc \in {"idle", "done", "failed", "crashed", "dry", "noinput"}
  /\ run < MaxRuns
  /\ pc' = "noinput"
  /\ payloads' = <<>>
  /\ src' = <<>>
  /\ idx' = 0
  /\ attempt' = 0
  /\ run' = run + 1
  /\ prev' = IF run = 0 THEN NoPrev
             ELSE [valid |-> TRUE, pc |-> pc, payloads |-> payloads, src |-> src,
                   idx |-> idx, accepted |-> AcceptedBatches, ledger0 |-> ledger0]
  /\ posts' = <<>>
  /\ appended' = <<>>
  /\ slept' = <<>>
  /\ ledger0' = ledger
  /\ loaded' = NoLoad
  /\ UNCHANGED <<probe, records, args, ledger, accept_status, success_substring>>

\* an exit code where an abort is reported like a missing input file
ExitCodeAbortAsNoInput ==
  CASE pc \in {"done", "dry"} -> 0
    [] pc \in {"noinput", "failed"} -> 2
    [] OTHER -> -1

\* the exit code of the process once main has ended: 0 for a return
\* (send_batches.py lines 110 and 117), 2 at line 65, 3 at line 116; -1 stands
\* for a run that has not ended or was killed
ExitCode ==
  CASE pc \in {"done", "dry"} -> 0
    [] pc = "noinput" -> 2
    [] pc = "failed" -> 3
    [] OTHER -> -1

NextMain ==
  \/ RunStart \/ Post \/ Commit \/ Crash
  \/ DryRun \/ InputNotFound

SpecMain == InitMain /\ [][NextMain]_vars

\* ------------------------------------------------------------------------
\* The acceptance decision on its own: one response from post_json, the
\* options --accept-status and --success-substring as typed
\* ------------------------------------------------------------------------
hStatus == <<"s", "t", "a", "t", "u", "s">>
hXStatus == <<"x", "-", "s", "t", "a", "t", "u", "s">>
hResult == <<"r", "e", "s", "u", "l", "t">>
hXResult == <<"x", "-", "r", "e", "s", "u", "l", "t">>
hMessage == <<"m", "e", "s", "s", "a", "g", "e">>
hContentType == <<"c", "o", "n", "t", "e", "n", "t", "-", "t", "y", "p", "e">>

\* response headers as post_json returns them: lowercase names, one value each
HeaderChoices ==
  { <<>>,
    << <<hXStatus, sSuccess>> >>,
    << <<hXStatus, <<" ", "O", "K", " ">>>> >>,
    << <<hMessage, BodyAllDone>> >>,
    << <<hStatus, <<"f", "a", "i", "l">>>>, <<hResult, sOk>> >>,
    << <<hContentType, sOk>> >>,
    << <<hXStatus, <<"o", "k", "a", "y">>>> >>,
    << <<hXResult, sPending>> >> }

BodyChoices ==
  {BodyOK, BodyAllDone, BodyStatusPending, BodyStatus200, BodyStatus201,
   BodyStatusEscaped, BodyMsgEscaped, BodyListEscaped, BodyStatusTrue,
   BodyEmpty, BodyTimedOut}

\* 0 is what post_json returns when the request itself failed
StatusChoices == {0, 200, 201, 429}

AcceptStatusArgs ==
  {<<"2", "0", "0">>, <<"2", "0", "0", ",", " ", "2", "0", "1">>, <<"2", "0", "x">>, <<>>, <<"0", ",", "2", "0", "0">>,
   <<"1", ",", "2", "0", "0">>, <<",">>}

SuccessSubstringArgs ==
  {<<>>, <<" ">>, sDone, <<" ", "D", "o", "n", "e", " ">>, sOk}

InitAccept ==
  /\ records = <<>>
  /\ args \in [batch_size : {1},
               max_retries : {1},
               wait_seconds : {DefaultWaitSeconds},
               accept_status : AcceptStatusArgs,
               success_substring : SuccessSubstringArgs,
               limit_batches : {0},
               webhook : {DefaultWebhook}]
  /\ ledger = <<>>
  /\ pc = "idle"
  /\ payloads = <<>>
  /\ idx = 0
  /\ attempt = 0
  /\ accept_status = {}
  /\ success_substring = <<>>
  /\ run = 0
  /\ posts = <<>>
  /\ appended = <<>>
  /\ slept = <<>>
  /\ ledger0 = <<>>
  /\ src = <<>>
  /\ prev = NoPrev
  /\ probe \in [phase : {"options"}, status : StatusChoices,
                resp_text : BodyChoices, resp_headers : HeaderChoices,
                accepted : {FALSE}]
  /\ loaded = NoLoad

\* sender.py lines 11-15: the two options are parsed
ParseOptions ==
  /\ probe.phase = "options"
  /\ accept_status' = ParseAcceptStatus(args.accept_status)
  /\ success_substring' = NormalizeSubstring(args.success_substring)
  /\ probe' = [probe EXCEPT !.phase = "response"]
  /\ UNCHANGED <<records, args, ledger, pc, payloads, idx, attempt, run, posts,
                 appended, slept, ledger0, src, prev, loaded>>

\* sender.py lines 23-62: the response is looked at
Decide ==
  /\ probe.phase = "response"
  /\ probe' = [probe EXCEPT
                 !.phase = "decided",
                 !.accepted = Accepted(probe.status, probe.resp_text,
                                       probe.resp_headers, accept_status,
                                       success_substring)]
  /\ UNCHANGED <<records, args, ledger, pc, payloads, idx, attempt,
                 accept_status, success_substring, run, posts, appended, slept,
                 ledger0, src, prev, loaded>>

NextAccept == ParseOptions \/ Decide

SpecAccept == InitAccept /\ [][NextAccept]_vars

\* ------------------------------------------------------------------------
\* batcher/client.py: post_json on its own
\* ------------------------------------------------------------------------
\* values of --webhook: two well-formed URLs, one without scheme, the empty
\* string, one with a broken IPv6 host
UrlChoices ==
  {"https://hook.example/w", "http://127.0.0.1:9/x", "example.com/hook", "",
   "http://[::1/x"}

\* client.py line 19: urllib.request.Request(url, ...) raises ValueError for a
\* URL without scheme ("unknown url type") or with a broken host
RequestRaises(url) == url \in {"example.com/hook", "", "http://[::1/x"}

\* the data argument: batches as prepare_payload builds them, a value json
\* cannot serialize (a set), a string utf-8 cannot encode (a lone surrogate)
DataChoices ==
  { [kind |-> "items", items |-> <<>>],
    [kind |-> "items", items |-> prepare_payload(<<RecA>>)],
    [kind |-> "items", items |-> prepare_payload(<<RecA, RecG>>)],
    [kind |-> "set", items |-> <<>>],
    [kind |-> "surrogate", items |-> <<>>] }

\* client.py line 14: json.dumps(...).encode("utf-8") raises TypeError or
\* UnicodeEncodeError
DumpsRaises(data) == data.kind # "items"

hXStatusMixed == <<"X", "-", "S", "t", "a", "t", "u", "s">>

\* what urlopen does: a response, an HTTPError with a status and a body, an
\* HTTPError whose body cannot be read, or another exception (connection
\* refused, timeout, failure while the body is read)
NetworkOutcomes ==
  { [kind |-> "response", code |-> 200, text |-> BodyOK,
     headers |-> << <<hXStatusMixed, sSuccess>> >>],
    [kind |-> "response", code |-> 201, text |-> BodyStatus201, headers |-> <<>>],
    [kind |-> "response", code |-> 204, text |-> BodyEmpty, headers |-> <<>>],
    [kind |-> "http_error", code |-> 404, text |-> BodyEmpty, headers |-> <<>>],
    [kind |-> "http_error", code |-> 429, text |-> BodyStatusPending,
     headers |-> << <<hXStatusMixed, sPending>> >>],
    [kind |-> "http_error", code |-> 500, text |-> BodyAllDone, headers |-> <<>>],
    [kind |-> "http_error_unread", code |-> 503, text |-> BodyTimedOut, headers |-> <<>>],
    [kind |-> "exception", code |-> 0, text |-> BodyTimedOut, headers |-> <<>>],
    [kind |-> "exception", code |-> 0,
     text |-> <<"r", "e", "f", "u", "s", "e", "d">>, headers |-> <<>>],
    [kind |-> "exception_in_read", code |-> 200, text |-> BodyTimedOut, headers |-> <<>>] }

\* client.py lines 6-40: the result of post_json, or the exception that leaves it
post_json(url, data, outcome) ==
  IF DumpsRaises(data) THEN [raised |-> TRUE, status |-> 0, text |-> <<>>, headers |-> <<>>]
  ELSE IF RequestRaises(url) THEN [raised |-> TRUE, status |-> 0, text |-> <<>>, headers |-> <<>>]
  ELSE IF outcome.kind \in {"response", "http_error", "http_error_unread"}
    THEN [raised |-> FALSE, status |-> outcome.code, text |-> outcome.text,
          headers |-> LowerKeys(outcome.headers)]
  ELSE [raised |-> FALSE, status |-> 0, text |-> outcome.text, headers |-> <<>>]

InitClient ==
  /\ records = <<>>
  /\ args \in [batch_size : {1},
               max_retries : {1},
               wait_seconds : {DefaultWaitSeconds},
               accept_status : {<<"2", "0", "0">>},
               success_substring : {sTerminado},
               limit_batches : {0},
               webhook : {DefaultWebhook}]
  /\ ledger = <<>>
  /\ pc = "idle"
  /\ payloads = <<>>
  /\ idx = 0
  /\ attempt = 0
  /\ accept_status = {}
  /\ success_substring = <<>>
  /\ run = 0
  /\ posts = <<>>
  /\ appended = <<>>
  /\ slept = <<>>
  /\ ledger0 = <<>>
  /\ src = <<>>
  /\ prev = NoPrev
  /\ loaded = NoLoad
  /\ probe \in [phase : {"call"}, url : UrlChoices, data : DataChoices,
                outcome : NetworkOutcomes, result : {<<>>}]

\* sender.py line 23: one call of post_json; it returns to the retry loop or
\* its exception leaves send_payloads
CallPostJson ==
  /\ probe.phase = "call"
  /\ LET r == post_json(probe.url, probe.data, probe.outcome)
     IN probe' = [probe EXCEPT !.phase = IF r.raised THEN "raised" ELSE "returned",
                               !.result = r]
  /\ UNCHANGED <<records, args, ledger, pc, payloads, idx, attempt,
                 accept_status, success_substring, run, posts, appended, slept,
                 ledger0, src, prev, loaded>>

NextClient == CallPostJson

SpecClient == InitClient /\ [][NextClient]_vars

\* ------------------------------------------------------------------------
\* batcher/state.py: the two ledger functions on one file
\* ------------------------------------------------------------------------
\* content of the state file before the append: empty or missing; lines the
\* pipeline wrote; lines ending in CR LF, a padded line and a blank line (the
\* file is plain text and --state-file may name any file); a last line
\* without its line end
PriorLedgers ==
  { <<>>,
    <<"x", LF>>,
    <<"x", LF, "u", LF>>,
    <<"x", CR, LF, "y", LF>>,
    <<" ", "x", " ", LF, LF>>,
    <<"x">> }

\* uids as sender.py line 67 hands them to append_sent_uids: trimmed, not
\* empty, without CR and NUL (prepare_payload took them out); a line feed
\* inside a quoted CSV field stays
LedgerUids ==
  { <<"u">>, <<"x">>, <<"a", " ", "b">>, <<"a", TAB, "b">>, <<"c", LF, "d">>,
    BatchUids(prepare_payload(<<Rec(<<" ", "g", NUL, CR>>, sApproved, sPublic)>>))[1] }

InitLedger ==
  /\ records = <<>>
  /\ args \in [batch_size : {1},
               max_retries : {1},
               wait_seconds : {DefaultWaitSeconds},
               accept_status : {<<"2", "0", "0">>},
               success_substring : {sTerminado},
               limit_batches : {0},
               webhook : {DefaultWebhook}]
  /\ ledger \in PriorLedgers
  /\ pc = "idle"
  /\ payloads = <<>>
  /\ idx = 0
  /\ attempt = 0
  /\ accept_status = {}
  /\ success_substring = <<>>
  /\ run = 0
  /\ posts = <<>>
  /\ appended = <<>>
  /\ slept = <<>>
  /\ ledger0 = ledger
  /\ src = <<>>
  /\ prev = NoPrev
  /\ loaded = NoLoad
  /\ probe \in [phase : {"prior"}, uid : LedgerUids, writable : BOOLEAN,
                before : {load_sent_uids(ledger)}, after1 : {{}}, after2 : {{}}]

\* append_sent_uids(path, [uid]) and then load_sent_uids(path); on a path
\* that cannot be written the append does nothing (state.py lines 27-29)
AppendOnce ==
  /\ probe.phase = "prior"
  /\ ledger' = IF probe.writable THEN append_sent_uids(ledger, <<probe.uid>>) ELSE ledger
  /\ probe' = [probe EXCEPT !.phase = "once", !.after1 = load_sent_uids(ledger')]
  /\ UNCHANGED <<records, args, pc, payloads, idx, attempt, accept_status,
                 success_substring, run, posts, appended, slept, ledger0, src,
                 prev, loaded>>

\* the same append a second time, and load_sent_uids again
AppendTwice ==
  /\ probe.phase = "once"
  /\ ledger' = IF probe.writable THEN append_sent_uids(ledger, <<probe.uid>>) ELSE ledger
  /\ probe' = [probe EXCEPT !.phase = "twice", !.after2 = load_sent_uids(ledger')]
  /\ UNCHANGED <<records, args, pc, payloads, idx, attempt, accept_status,
                 success_substring, run, posts, appended, slept, ledger0, src,
                 prev, loaded>>

NextLedger == AppendOnce \/ AppendTwice

SpecLedger == InitLedger /\ [][NextLedger]_vars

\* ------------------------------------------------------------------------
\* send_batches.py lines 67-99: the batches main builds, for longer inputs
\* ------------------------------------------------------------------------
MaxChunkRecords == 6   \* records in the input of the batching runs
MaxChunkSize == 4      \* largest --batch-size of the batching runs

RecPending == Rec(<<"e">>, sPending, sPublic)

ChunkInputs == SeqsUpTo({RecA, RecG, RecPending}, MaxChunkRecords)

\* the last run the model follows, over a ledger an earlier run may have left
InitChunk ==
  /\ records \in ChunkInputs
  /\ args \in [batch_size : 1..MaxChunkSize,
               max_retries : {1},
               wait_seconds : {DefaultWaitSeconds},
               accept_status : {<<"2", "0", "0">>},
               success_substring : {sTerminado},
               limit_batches : {0},
               webhook : {DefaultWebhook}]
  /\ ledger \in {<<>>, <<"g", LF>>}
  /\ pc = "idle"
  /\ payloads = <<>>
  /\ idx = 0
  /\ attempt = 0
  /\ accept_status = {}
  /\ success_substring = <<>>
  /\ run = MaxRuns - 1
  /\ posts = <<>>
  /\ appended = <<>>
  /\ slept = <<>>
  /\ ledger0 = ledger
  /\ src = <<>>
  /\ prev = NoPrev
  /\ probe = NoProbe
  /\ loaded = NoLoad

NextChunk == DryRun

SpecChunk == InitChunk /\ [][NextChunk]_vars

\* ------------------------------------------------------------------------
\* filtering.py and send_batches.py lines 69-79: the filter main applies
\* ------------------------------------------------------------------------
sData == <<"d", "a", "t", "a">>
sResource == <<"r", "e", "s", "o", "u", "r", "c", "e">>
sDataset == <<"d", "a", "t", "a", "s", "e", "t">>
sCsv == <<"c", "s", "v">>

\* filtering.py lines 30-37
Candidates(rec) ==
  <<rec.type, rec.resource_type, rec.format, rec.theme, rec.category, rec.topic>>

\* the truth value of a field: None and the empty string are false
Truthy(v) == v # None /\ v # <<>>

\* Matched without the test that the field value is inside the type
MatchedOneWay(rec, rt) ==
  \E i \in 1..Len(Candidates(rec)) :
    /\ Candidates(rec)[i] # None
    /\ LET cs == Lower(Strip(Candidates(rec)[i]))
       IN rt = cs \/ Contains(cs, rt)

\* filtering.py lines 45-52
Matched(rec, rt) ==
  \E i \in 1..Len(Candidates(rec)) :
    /\ Candidates(rec)[i] # None
    /\ LET cs == Lower(Strip(Candidates(rec)[i]))
       IN rt = cs \/ Contains(cs, rt) \/ Contains(rt, cs)

\* PassesType with the alias rule applied before the approval/audience gate
PassesTypeAliasFirst(rec, rt) ==
  IF rt \in {sData, sResource}
  THEN Truthy(rec.api_endpoint) \/ Truthy(rec.url)
  ELSE PassesGate(rec) /\ Matched(rec, rt)

\* filtering.py lines 7-54: the loop body for one record
PassesType(rec, rt) ==
  /\ PassesGate(rec)
  /\ IF rt \in {sData, sResource}
     THEN Truthy(rec.api_endpoint) \/ Truthy(rec.url)
     ELSE Matched(rec, rt)

\* filtering.py lines 4-55
_filter_by_type(recs, resource_type) ==
  LET rt == Lower(Strip(resource_type))
      Keep(rec) == PassesType(rec, rt)
  IN SelectSeq(recs, Keep)

\* send_batches.py lines 69-79: available is whether filtering.py could be
\* imported (lines 10-13)
MainFilter(recs, type, available) ==
  IF Truthy(type) /\ available THEN _filter_by_type(recs, type)
  ELSE basic_prefilter(recs)

\* a row of the inventory with the fields the filters read
FRec(approval, audience, type, format, topic, api_endpoint, url) ==
  [uid |-> <<"a">>, name |-> <<"n">>, description |-> None, url |-> url,
   tags |-> <<>>, approval_status |-> approval, audience |-> audience,
   type |-> type, resource_type |-> None, format |-> format, theme |-> None,
   category |-> None, topic |-> topic, api_endpoint |-> api_endpoint]

FilterPool ==
  { FRec(sApproved, sPublic, <<"D", "a", "t", "a", "s", "e", "t">>, None, None, None, <<"u">>),
    FRec(<<"A", "p", "p", "r", "o", "v", "e", "d", " ">>, <<"P", "U", "B", "L", "I", "C">>, None, <<"C", "S", "V">>, None, None, None),
    FRec(sApproved, sPublic, None, None, None, <<"c", "s", "v", "/", "a", "p", "i">>, None),
    FRec(sApproved, sPublic, <<>>, None, None, <<>>, <<>>),
    FRec(sPending, sPublic, sDataset, None, None, <<"x">>, <<"u">>),
    FRec(sApproved, <<"i", "n", "t", "e", "r", "n", "a", "l">>, sDataset, sCsv, None, <<"x">>, None),
    FRec(None, sPublic, sDataset, None, None, None, <<"u">>),
    FRec(sApproved, None, sDataset, None, None, None, <<"u">>),
    FRec(sApproved, sPublic, None, None, <<" ", "O", "p", "e", "n", " ", "D", "a", "t", "a", "s", "e", "t", "s", " ">>, None, <<" ">>),
    FRec(sApproved, sPublic, None, None, <<"s", "e", "t">>, None, None),
    FRec(sApproved, sPublic, None, <<" ", TAB>>, None, None, None) }

MaxFilterRecords == 2   \* records in the input of the filter runs

FilterInputs == SeqsUpTo(FilterPool, MaxFilterRecords)

\* values of --type: not given, empty, the aliases, and others
TypeChoices ==
  {None, <<>>, sData, <<" ", "R", "e", "s", "o", "u", "r", "c", "e", " ">>, sDataset, <<"C", "S", "V", " ">>, <<" ">>}

InitFilter ==
  /\ records \in FilterInputs
  /\ args \in [batch_size : {1},
               max_retries : {1},
               wait_seconds : {DefaultWaitSeconds},
               accept_status : {<<"2", "0", "0">>},
               success_substring : {sTerminado},
               limit_batches : {0},
               webhook : {DefaultWebhook}]
  /\ ledger = <<>>
  /\ pc = "idle"
  /\ payloads = <<>>
  /\ idx = 0
  /\ attempt = 0
  /\ accept_status = {}
  /\ success_substring = <<>>
  /\ run = 0
  /\ posts = <<>>
  /\ appended = <<>>
  /\ slept = <<>>
  /\ ledger0 = <<>>
  /\ src = <<>>
  /\ prev = NoPrev
  /\ loaded = NoLoad
  /\ probe \in [phase : {"input"}, type : TypeChoices, available : BOOLEAN,
                input : {records}, filtered : {<<>>}]

\* send_batches.py lines 67-81: main filters the records it has loaded
Filter ==
  /\ probe.phase = "input"
  /\ probe' = [probe EXCEPT !.phase = "filtered",
                            !.filtered = MainFilter(records, probe.type, probe.available)]
  /\ UNCHANGED <<records, args, ledger, pc, payloads, idx, attempt,
                 accept_status, success_substring, run, posts, appended, slept,
                 ledger0, src, prev, loaded>>

NextFilter == Filter

SpecFilter == InitFilter /\ [][NextFilter]_vars

\* ------------------------------------------------------------------------
\* batcher/utils.py: prepare_payload on one record
\* ------------------------------------------------------------------------
\* values of a CSV field: missing, empty, plain, padded, and with a carriage
\* return, a NUL or a line feed inside (a quoted field), or at its ends
FieldValues ==
  { None, <<>>, <<"a">>, <<" ", "a", " ">>, <<"a", CR, "b">>, <<"a", NUL>>,
    <<"a", LF, "b">>, <<CR, LF, "a", LF>> }

OtherFieldValues ==
  { None, <<"a">>, <<"a", CR, "b">>, <<TAB, "a", NUL, "b">> }

PayloadRecords ==
  { [uid |-> u, name |-> n, description |-> o, url |-> o, tags |-> o,
     approval_status |-> sApproved, audience |-> sPublic] :
      u \in FieldValues, n \in FieldValues, o \in OtherFieldValues }

InitPayload ==
  /\ records = <<>>
  /\ args \in [batch_size : {1},
               max_retries : {1},
               wait_seconds : {DefaultWaitSeconds},
               accept_status : {<<"2", "0", "0">>},
               success_substring : {sTerminado},
               limit_batches : {0},
               webhook : {DefaultWebhook}]
  /\ ledger = <<>>
  /\ pc = "idle"
  /\ payloads = <<>>
  /\ idx = 0
  /\ attempt = 0
  /\ accept_status = {}
  /\ success_substring = <<>>
  /\ run = 0
  /\ posts = <<>>
  /\ appended = <<>>
  /\ slept = <<>>
  /\ ledger0 = <<>>
  /\ src = <<>>
  /\ prev = NoPrev
  /\ loaded = NoLoad
  /\ probe \in [phase : {"record"}, record : PayloadRecords, items : {<<>>}]

\* send_batches.py line 97: prepare_payload on a chunk of one record
PreparePayload ==
  /\ probe.phase = "record"
  /\ probe' = [probe EXCEPT !.phase = "prepared",
                            !.items = prepare_payload(<<probe.record>>)]
  /\ UNCHANGED <<records, args, ledger, pc, payloads, idx, attempt,
                 accept_status, success_substring, run, posts, appended, slept,
                 ledger0, src, prev, loaded>>

NextPayload == PreparePayload

SpecPayload == InitPayload /\ [][NextPayload]_vars

\* ------------------------------------------------------------------------
\* Properties
\* ------------------------------------------------------------------------
\* the POSTs of this run made for batch b, in order
PostsOf(b) == SelectSeq(posts, LAMBDA p : p.idx = b)

\* the uids present in a batch: the trimmed non-empty uid values of its items
PresentUids(batch) ==
  LET trimmed == [i \in 1..Len(batch) |-> Strip(batch[i].uid)]
  IN SelectSeq(trimmed, LAMBDA u : u # <<>>)

\* the uids present in batches 1..k of this run, in order
RECURSIVE UidsOfBatches(_)
UidsOfBatches(k) ==
  IF k = 0 THEN <<>> ELSE UidsOfBatches(k - 1) \o PresentUids(payloads[k])

\* the file content after one line per uid is added to a file
RECURSIVE WithLines(_, _)
WithLines(file, uids) ==
  IF uids = <<>> THEN file
  ELSE WithLines(file, SubSeq(uids, 1, Len(uids) - 1)) \o uids[Len(uids)] \o <<LF>>

\* C1: the POSTs of a run go through the batches in list order, one batch at
\* a time: the first POST is for batch 1, the batch number never decreases
\* from one POST to a later one, and a POST for batch k+1 is made only after an
\* accepted POST for batch k.
C1_PostsInBatchOrder ==
  /\ posts # <<>> => posts[1].idx = 1
  /\ \A i, j \in 1..Len(posts) : i < j => posts[i].idx <= posts[j].idx
  /\ \A j \in 1..Len(posts) :
       posts[j].idx > 1 =>
         \E i \in 1..(j - 1) : posts[i].idx = posts[j].idx - 1 /\ posts[i].accepted

\* a POST for batch 3 was made after batch 1 needed a retry
C1_Witness ==
  /\ Len(posts) >= 4
  /\ posts[1].idx = 1 /\ ~posts[1].accepted
  /\ posts[Len(posts)].idx = 3

C3_AbortKeepsProgress ==
  /\ (\E b \in 1..Len(payloads) :
        /\ Len(PostsOf(b)) >= args.max_retries
        /\ \A i \in 1..Len(PostsOf(b)) : ~PostsOf(b)[i].accepted)
     => pc = "failed"
  /\ pc = "failed" =>
       /\ Len(PostsOf(idx)) = args.max_retries
       /\ \A i \in 1..Len(posts) : posts[i].idx <= idx
       /\ \A i \in 1..Len(posts) : posts[i].idx = idx => ~posts[i].accepted
       /\ AcceptedBatches = 1..(idx - 1)
       /\ ledger = WithLines(ledger0, UidsOfBatches(idx - 1))

\* the second batch failed after the first had written its uids
C3_Witness ==
  /\ pc = "failed" /\ idx = 2 /\ Len(payloads) >= 3
  /\ appended # <<>>
  /\ args.max_retries = 2

\* the uids of the items of batch b of this run, as POSTed
PostedUids(b) == {payloads[b][n].uid : n \in 1..Len(payloads[b])}

\* C4: a uid that is in the ledger when a run starts is not the uid of any
\* item of any batch that run POSTs.
C4_LedgerUidNeverResent ==
  \A i \in 1..Len(posts) : PostedUids(posts[i].idx) \cap load_sent_uids(ledger0) = {}

\* the positions in records of the items of batch b of this run
ItemsOf(b) == {src[b][n] : n \in 1..Len(src[b])}

\* the positions in records of the records that were in an accepted POST of
\* the previous run
PrevDelivered ==
  UNION {{prev.src[b][n] : n \in 1..Len(prev.src[b])} : b \in prev.accepted}

\* a record whose uid the ledger can key: present, not blank, and without a
\* carriage return, a line feed or a NUL inside
HasPlainUid(rec) ==
  /\ rec.uid # None
  /\ Strip(rec.uid) # <<>>
  /\ \A i \in 1..Len(Strip(rec.uid)) : Strip(rec.uid)[i] \notin {CR, LF, NUL}

\* C5: in a run that follows an earlier run, however that one ended (by a
\* return, an abort or a kill at any point), no record that was in an accepted
\* POST of the earlier run is POSTed; stated here for the records with a plain
\* uid alone, the case most favourable to the claim.
C5_NoResendAfterRestart ==
  prev.valid =>
    \A i \in 1..Len(posts) :
      \A n \in ItemsOf(posts[i].idx) \cap PrevDelivered : ~HasPlainUid(records[n])

\* the batches of this run are the batches of the previous run from its
\* batch k on, and no record of its batches 1..k-1 is in a batch of this run
ResumesAt(k) ==
  /\ Len(payloads) = Len(prev.payloads) - k + 1
  /\ \A j \in 1..Len(payloads) : payloads[j] = prev.payloads[k + j - 1]
  /\ \A j \in 1..Len(src) : \A b \in 1..(k - 1) :
       ItemsOf(j) \cap {prev.src[b][n] : n \in 1..Len(prev.src[b])} = {}

PlainDistinctUids ==
  \A i, j \in 1..Len(records) :
    PassesGate(records[i]) /\ PassesGate(records[j]) =>
      /\ HasPlainUid(records[i])
      /\ i # j => Strip(records[i].uid) # Strip(records[j].uid)

Committed(b) == b < idx \/ (b = idx /\ pc = "done")

SleepsAt(b, a) == SelectSeq(slept, LAMBDA e : e.idx = b /\ e.attempt = a)

RECURSIVE TotalSecs(_)
TotalSecs(es) == IF es = <<>> THEN 0 ELSE Head(es).secs + TotalSecs(Tail(es))

\* C8: after a non-accepted attempt a < max_retries of a batch the sender
\* sleeps wait_seconds * 2^(a-1), once; after a non-accepted attempt
\* a = max_retries it does not sleep; after an accepted attempt it sleeps
\* wait_seconds, once (when the acceptance handling is through); there is no
\* other sleep; and a batch accepted on attempt a has made the run sleep
\* wait_seconds * (2^(a-1) - 1) + wait_seconds in all.
C8_SleepSchedule ==
  LET ws == args.wait_seconds
  IN /\ \A i \in 1..Len(posts) :
          LET p == posts[i]
              S == SleepsAt(p.idx, p.attempt)
          IN /\ (~p.accepted /\ p.attempt < args.max_retries)
                  => Len(S) = 1 /\ S[1].secs = ws * 2^(p.attempt - 1)
             /\ (~p.accepted /\ p.attempt = args.max_retries) => S = <<>>
             /\ (p.accepted /\ Committed(p.idx)) => Len(S) = 1 /\ S[1].secs = ws
             /\ (p.accepted /\ ~Committed(p.idx)) => S = <<>>
             /\ (p.accepted /\ Committed(p.idx)) =>
                  TotalSecs(SelectSeq(slept, LAMBDA e : e.idx = p.idx))
                    = ws * (2^(p.attempt - 1) - 1) + ws
     /\ \A j \in 1..Len(slept) :
          \E i \in 1..Len(posts) :
            posts[i].idx = slept[j].idx /\ posts[i].attempt = slept[j].attempt

\* a batch was accepted on its fourth attempt with wait_seconds = 3 and its
\* acceptance handling is through: 3 + 6 + 12 of backoff and 3 to settle
C8_Witness ==
  /\ args.wait_seconds = 3
  /\ \E i \in 1..Len(posts) :
       /\ posts[i].accepted /\ posts[i].attempt = 4 /\ Committed(posts[i].idx)
       /\ TotalSecs(SelectSeq(slept, LAMBDA e : e.idx = posts[i].idx)) = 24

OccursIgnoringCase(s, text) == Contains(Lower(text), Lower(s))

\* the five header names the decision looks at
InspectedHeaders == {HeaderKeys[i] : i \in 1..Len(HeaderKeys)}

\* the body is a JSON mapping with an integer `status` in A, or with a string
\* `status` containing s, or with any string value containing s (an integer
\* as the code tests it: a JSON true or false is the integer 1 or 0)
MappingSignals(body, A, s) ==
  LET parsed == JsonLoads(body)
  IN /\ parsed.kind = "dict"
     /\ \E i \in 1..Len(parsed.items) :
          LET name == parsed.items[i][1]
              value == parsed.items[i][2]
          IN \/ name = kStatus /\ value.t \in {"int", "bool"} /\ value.v \in A
             \/ value.t = "str" /\ OccursIgnoringCase(s, value.v)

\* one of the inspected headers has the trimmed lowercase value ok or success,
\* or one containing s
HeaderSignals(headers, s) ==
  \E i \in 1..Len(headers) :
    /\ Lower(headers[i][1]) \in InspectedHeaders
    /\ LET val == Lower(Strip(headers[i][2]))
       IN val \in {sOk, sSuccess} \/ Contains(val, s)

\* the decision procedure as the policy states it
Policy(status, body, headers, A, s) ==
  IF status \notin A THEN FALSE
  ELSE IF s = <<>> THEN TRUE
  ELSE \/ OccursIgnoringCase(s, body)
       \/ MappingSignals(body, A, s)
       \/ HeaderSignals(headers, s)

C11_TransportFailureNeverAccepted ==
  (probe.phase = "decided" /\ probe.status = 0 /\ probe.resp_headers = <<>>
     /\ probe.resp_text = BodyTimedOut)
    => ~probe.accepted

\* C12: post_json always gives a (status, body, headers) result and lets no
\* exception out, for every url, payload and network outcome; a transport
\* failure gives status 0, the error text and no headers.
C12_PostJsonAlwaysReturns ==
  /\ probe.phase # "raised"
  /\ (probe.phase = "returned" /\ probe.outcome.kind \in {"exception", "exception_in_read"})
       => /\ probe.result.status = 0
          /\ probe.result.text = probe.outcome.text
          /\ probe.result.headers = <<>>

\* the positions in records of the items of all batches of this run
ItemsOfRun == UNION {ItemsOf(b) : b \in 1..Len(src)}

\* the elements of a sequence
Elements(q) == {q[i] : i \in 1..Len(q)}

\* C13: a failing ledger append after an accepted batch is swallowed: the run
\* is aborted only by a batch without an accepted POST, never by a batch that
\* was accepted; a run that returned had every batch accepted, whatever the
\* appends did; what the run wrote to the ledger are uids of its accepted
\* batches, so a failed append only leaves uids out; and a later run has in
\* its batches every record of an accepted batch of the earlier run whose
\* uid is missing from the ledger.
C13_AppendFailureSwallowed ==
  /\ pc = "failed" => idx \notin AcceptedBatches
  /\ pc = "done" => AcceptedBatches = 1..Len(payloads)
  /\ ledger = WithLines(ledger0, appended)
  /\ Elements(appended) \subseteq Elements(UidsOfBatches(Cardinality(AcceptedBatches)))
  /\ prev.valid =>
       \A n \in PrevDelivered :
         Strip(OrEmpty(records[n].uid)) \notin load_sent_uids(ledger0) => n \in ItemsOfRun

\* a run returned normally although an append failed: the next run, which
\* read the ledger without a fault, has POSTed a record with a plain uid that
\* the earlier run had delivered, and has returned too
C13_Witness ==
  /\ prev.valid /\ prev.pc = "done" /\ ~loaded.fault
  /\ pc = "done"
  /\ \E i \in 1..Len(posts) :
       \E n \in ItemsOf(posts[i].idx) \cap PrevDelivered : HasPlainUid(records[n])

\* C14: when the ledger file is missing or cannot be read, load_sent_uids
\* returns the empty set and the run has every record that passes the filter
\* in its batches.
C14_ReadFaultGivesEmptySet ==
  loaded.fault =>
    /\ loaded.uids = {}
    /\ \A n \in 1..Len(records) : PassesGate(records[n]) => n \in ItemsOfRun

\* q is p with something added at its end
IsPrefix(p, q) == Len(p) <= Len(q) /\ SubSeq(q, 1, Len(p)) = p

C15_LedgerRoundTrip ==
  /\ probe.phase \in {"once", "twice"} =>
       /\ probe.uid \in probe.after1
       /\ probe.before \subseteq probe.after1
  /\ probe.phase = "twice" => probe.after2 = probe.after1

\* the positions in records of the records that pass the filter and are not
\* in the ledger the run started with
ToDeliver ==
  {n \in 1..Len(records) :
     /\ PassesGate(records[n])
     /\ LET uid == Strip(OrEmpty(records[n].uid))
        IN uid = <<>> \/ uid \notin load_sent_uids(ledger0)}

\* the i-th of these positions, in increasing order
NthToDeliver(i) ==
  CHOOSE n \in ToDeliver : Cardinality({m \in ToDeliver : m < n}) = i - 1

\* the batches one after the other
RECURSIVE Concatenated(_)
Concatenated(batches) ==
  IF batches = <<>> THEN <<>> ELSE Head(batches) \o Concatenated(Tail(batches))

\* C17: with N the number of records that pass the filter and are not yet
\* delivered and S the batch size, main builds ceil(N/S) batches, all of S
\* items except the last, which has between 1 and S, and the batches one
\* after the other are the payload items of these records in input order.
C17_ChunkingLaw ==
  pc = "dry" =>
    LET N == Cardinality(ToDeliver)
        S == args.batch_size
        B == Len(payloads)
    IN /\ B = (N + S - 1) \div S
       /\ \A b \in 1..(B - 1) : Len(payloads[b]) = S
       /\ B > 0 => Len(payloads[B]) \in 1..S
       /\ Concatenated(payloads) = [i \in 1..N |-> PayloadItem(records[NthToDeliver(i)])]

\* five records to deliver out of six, in two batches of three and two
C17_Witness ==
  /\ pc = "dry" /\ Len(records) = 6 /\ Cardinality(ToDeliver) = 5
  /\ args.batch_size = 3 /\ Len(payloads) = 2 /\ Len(payloads[2]) = 2

\* the records of recs at the positions P, in the order of recs
Picked(recs, P) ==
  [i \in 1..Cardinality(P) |->
     recs[CHOOSE n \in P : Cardinality({m \in P : m < n}) = i - 1]]

\* a field value trimmed and lowercased
Normalized(v) == Lower(Strip(v))

\* approval_status is approved and audience is public, case and surrounding
\* whitespace aside; a record without one of the two fields does not qualify
ApprovedAndPublic(rec) ==
  /\ rec.approval_status # None /\ Normalized(rec.approval_status) = sApproved
  /\ rec.audience # None /\ Normalized(rec.audience) = sPublic

\* main filtered without a type
FilteredWithoutType == probe.phase = "filtered" /\ probe.type \in {None, <<>>}

\* main filtered with _filter_by_type
FilteredByType ==
  probe.phase = "filtered" /\ probe.type \notin {None, <<>>} /\ probe.available

\* C18: without a type the filter returns the records that are approved and
\* public (trimmed, lowercased), in input order, a record without one of the
\* two fields is left out, and the input records are as they were.
C18_FilterWithoutType ==
  FilteredWithoutType =>
    /\ probe.filtered =
         Picked(probe.input,
                {n \in 1..Len(probe.input) : ApprovedAndPublic(probe.input[n])})
    /\ records = probe.input

\* of two records the one with a padded approval status was kept and the one
\* without audience was left out
C18_Witness ==
  /\ FilteredWithoutType
  /\ Len(probe.input) = 2 /\ Len(probe.filtered) = 1
  /\ probe.filtered[1].approval_status # Strip(probe.filtered[1].approval_status)
  /\ \E n \in 1..2 : probe.input[n].audience = None

ClassificationFields(rec) ==
  <<rec.type, rec.resource_type, rec.format, rec.theme, rec.category,
    rec.topic, rec.api_endpoint>>

\* C20: with any other type t the filter returns the records that are
\* approved and public and have a type-classification field (type,
\* resource_type, format, theme, category, topic, api_endpoint) whose trimmed
\* lowercased value equals t, contains t or is contained in t.
C20_OtherTypes ==
  (FilteredByType /\ Normalized(probe.type) \notin {sData, sResource}) =>
    LET t == Normalized(probe.type)
    IN probe.filtered =
         Picked(probe.input,
                {n \in 1..Len(probe.input) :
                   /\ ApprovedAndPublic(probe.input[n])
                   /\ \E i \in 1..7 :
                        LET v == ClassificationFields(probe.input[n])[i]
                        IN /\ v # None
                           /\ \/ t = Normalized(v)
                              \/ Contains(Normalized(v), t)
                              \/ Contains(t, Normalized(v))})

\* C21: every payload item has exactly the five fields uid, name,
\* description, url and tags, each a string, and none of them holds a carriage
\* return, a NUL or a line feed.
C21_PayloadItemsClean ==
  probe.phase = "prepared" =>
    /\ Len(probe.items) = 1
    /\ DOMAIN probe.items[1] = {"uid", "name", "description", "url", "tags"}
    /\ \A f \in DOMAIN probe.items[1] :
         /\ probe.items[1][f] # None
         /\ \A i \in 1..Len(probe.items[1][f]) : probe.items[1][f][i] \notin {CR, NUL, LF}

\* a comma-separated list of integers: every token between commas is an integer
WellFormedIntList(text) ==
  LET toks == Split(text, ",")
  IN \A i \in 1..Len(toks) : IsIntLiteral(Strip(toks[i]))

\* C22: whenever --accept-status is not a well-formed comma-separated list of
\* integers, send_payloads works with the accept set {200}.
C22_MalformedAcceptStatusGivesDefault ==
  (probe.phase \in {"response", "decided"} /\ ~WellFormedIntList(args.accept_status)) =>
    accept_status = {DefaultAcceptStatus}

\* C23: a run without --execute makes no POST and leaves the ledger as it
\* found it, whatever the input, the ledger and the other options.
C23_DryRunNoEffect ==
  pc = "dry" => (posts = <<>> /\ appended = <<>> /\ slept = <<>> /\ ledger = ledger0)

\* a second run, without --execute, over a ledger with entries and with
\* batches that would be sent
C23_Witness ==
  pc = "dry" /\ run = 2 /\ ledger # <<>> /\ payloads # <<>> /\ args.limit_batches = 0

\* C24: exit code 0 only when every batch the run was to send was accepted
\* (none without --execute); an exhausted batch gives 3, a missing input file
\* gives 2, and then neither the ledger was read nor a POST made.
C24_ExitBehaviour ==
  /\ ExitCode = 0 =>
       \/ pc = "dry" /\ posts = <<>>
       \/ pc = "done" /\ AcceptedBatches = 1..Len(payloads)
  /\ pc = "failed" =>
       /\ ExitCode = 3
       /\ idx \notin AcceptedBatches
       /\ attempt = args.max_retries
  /\ pc = "noinput" =>
       /\ ExitCode = 2
       /\ loaded = NoLoad
       /\ posts = <<>>
       /\ ledger = ledger0

\* the input file is missing in a run that follows an aborted run which had
\* one batch accepted, so the ledger has entries that were not read
C24_Witness ==
  /\ pc = "noinput" /\ run = 2
  /\ prev.valid /\ prev.pc = "failed" /\ prev.accepted # {}
  /\ load_sent_uids(ledger) # {}

\* the number of batches the run is to send: all B of them without a limit,
\* the first min(L, B) with --limit-batches L > 0
BatchesToSend ==
  LET N == Cardinality(ToDeliver)
      S == args.batch_size
      B == (N + S - 1) \div S
      L == args.limit_batches
  IN IF L > 0 /\ L < B THEN L ELSE B

\* C25: with --limit-batches L > 0 the run works on the first min(L, B) of its
\* B batches, in order, and on all B with L = 0: these are its batches, no
\* POST and no ledger line is for a later batch, and the run returns normally
\* exactly with all of them accepted.
C25_LimitBatches ==
  pc \notin {"idle", "noinput"} =>
    LET S == args.batch_size
        N == Cardinality(ToDeliver)
        K == BatchesToSend
    IN /\ Len(payloads) = K
       /\ Len(src) = K
       /\ \A b \in 1..K :
            /\ Len(src[b]) = IF b * S <= N THEN S ELSE N - (b - 1) * S
            /\ Len(payloads[b]) = Len(src[b])
            /\ \A n \in 1..Len(src[b]) :
                 /\ src[b][n] = NthToDeliver((b - 1) * S + n)
                 /\ payloads[b][n] = PayloadItem(records[src[b][n]])
       /\ \A i \in 1..Len(posts) : posts[i].idx \in 1..K
       /\ \E c \in 0..K : appended = UidsOfBatches(c)
       /\ ledger = WithLines(ledger0, appended)
       /\ pc = "done" => AcceptedBatches = 1..K
       /\ pc = "failed" => idx \in 1..K /\ idx \notin AcceptedBatches

\* a run limited to 2 of its 3 batches has returned after both were accepted
C25_Witness ==
  /\ pc = "done" /\ args.limit_batches = 2 /\ Len(payloads) = 2
  /\ Cardinality(ToDeliver) = 3 /\ args.batch_size = 1
  /\ AcceptedBatches = {1, 2} /\ appended # <<>>

\* C26: within one run no uid is in two batches that had an accepted POST,
\* also when two input records carry the same uid.
C26_AtMostOncePerRun ==
  \A b1, b2 \in AcceptedBatches :
    b1 # b2 => Elements(PresentUids(payloads[b1])) \cap Elements(PresentUids(payloads[b2])) = {}

\* C27: with --success-substring empty or only whitespace the decision is a
\* function of the status code alone: whatever the body and the headers, the
\* response is accepted exactly when its status is in the accept set.
C27_StatusAloneDecides ==
  (probe.phase = "decided" /\ Strip(OrEmpty(args.success_substring)) = <<>>) =>
    (probe.accepted <=> probe.status \in accept_status)

\* a response was accepted with --success-substring " ", a body without a
\* space that is no JSON mapping, and no headers
C27_Witness ==
  /\ probe.phase = "decided" /\ probe.accepted
  /\ args.success_substring = <<" ">>
  /\ ~Contains(OrEmpty(probe.resp_text), <<" ">>)
  /\ JsonLoads(probe.resp_text).kind # "dict"
  /\ probe.resp_headers = <<>>

\* C28: an attempt that is not accepted, followed by its backoff or by the
\* abort, changes the attempt counter and nothing else of the delivery: the
\* batch list, the current batch, the webhook and the other options, the
\* accept set, the success substring and the ledger stay as they are, so the
\* next attempt POSTs the same batch to the same URL.
C28_RetryKeepsBatch ==
  [][(pc = "post" /\ pc' \in {"post", "failed"}) =>
       /\ attempt' = attempt + 1
       /\ posts' = Append(posts, [idx |-> idx, attempt |-> attempt', accepted |-> FALSE])
       /\ UNCHANGED <<payloads, idx, args, records, accept_status, success_substring,
                      ledger, appended, src>>]_vars

\* a batch of two items is up for its fourth attempt after three that were
\* not accepted
C28_Witness ==
  /\ pc = "post" /\ attempt = 3 /\ Len(PostsOf(idx)) = 3
  /\ Len(payloads[idx]) = 2 /\ Len(slept) >= 3

\* the positions in records of the records that pass the filter and have a
\* uid that is absent, empty or only whitespace
BlankUidRecords ==
  {n \in 1..Len(records) :
     PassesGate(records[n]) /\ Strip(OrEmpty(records[n].uid)) = <<>>}

\* the positions in records of the items of the batches this run POSTed
PostedItems == UNION {ItemsOf(posts[i].idx) : i \in 1..Len(posts)}

\* C29: a record that passes the filter with an absent, empty or blank uid
\* is in the batches of every run, whatever the ledger holds, and in a POSTed
\* batch of every run that returned after sending all its batches; no empty
\* line is written to the ledger for it, and the acceptance handling of a
\* batch made only of such records leaves the ledger as it is.
C29_BlankUidAlwaysSent ==
  /\ [](/\ (pc \notin {"idle", "noinput"} /\ args.limit_batches = 0) =>
             BlankUidRecords \subseteq ItemsOfRun
        /\ (pc = "done" /\ args.limit_batches = 0) =>
             BlankUidRecords \subseteq PostedItems
        /\ \A i \in 1..Len(appended) : Strip(appended[i]) # <<>>
        /\ ledger = WithLines(ledger0, appended)
        /\ \A i \in 1..Len(FileLines(ledger)) : Strip(FileLines(ledger)[i]) # <<>>)
  /\ [][(pc = "accepted" /\ pc' \in {"post", "done"}
           /\ ItemsOf(idx) \subseteq BlankUidRecords) => ledger' = ledger]_vars

\* a second run over a ledger with entries has returned after a first run
\* that returned too, and POSTed a batch made only of records without uid
C29_Witness ==
  /\ pc = "done" /\ run = 2 /\ prev.valid /\ prev.pc = "done"
  /\ args.limit_batches = 0
  /\ ledger0 # <<>>
  /\ \E b \in AcceptedBatches : ItemsOf(b) \subseteq BlankUidRecords
  /\ Cardinality(BlankUidRecords) = 2
  /\ ledger = ledger0

\* a record with one of type, resource_type, format, theme, category, topic
\* present and empty or only whitespace
HasBlankCandidate(rec) ==
  \E i \in 1..Len(Candidates(rec)) :
    Candidates(rec)[i] # None /\ Strip(Candidates(rec)[i]) = <<>>

====
